---- MODULE Spec2Model ----
(***************************************************************************)
(* rdl: resumable, segmented HTTP downloader.                              *)
(*                                                                         *)
(* The module models one download engine (Downloader::download_file) with  *)
(* its segment tasks, the single-connection fallback, the verification     *)
(* gate, the files it keeps on disk (final file, slab, state record) and   *)
(* the process being killed and started again (Spec); init_state on its    *)
(* own (SpecPart); one engine on its slab file chunk by chunk, with the     *)
(* rate limiter, the file mutex, seek and write as steps (SpecSlab);        *)
(* run_downloads with its pre-scan, its semaphore, its engine tasks and the *)
(* global counters (SpecRun); and the file names that the engines of a run  *)
(* derive from their URLs (SpecNames).                                      *)
(*                                                                         *)
(* Bytes are small naturals.  The server entity of length n is the         *)
(* sequence <<1, .., n>>, so a byte landing at a wrong offset is visible;   *)
(* 0 is the byte of a pre-allocated (never written) region.                *)
(***************************************************************************)
EXTENDS Integers, Sequences, FiniteSets, TLC

\* ------------------------------------------------------------------ bounds
MaxSize == 2
MaxSplit == 2
MaxChunk == 2
MaxRuns == 2
MaxPartSize == 12
MaxPartSplit == 5

\* ------------------------------------------------------------- arithmetic
\* u64 fields wrap modulo 2^64 in a release build and panic in a debug
\* build.  TLC's integers are 32 bits wide, so the modulus is scaled down;
\* it stays far above every offset the model can produce.
U64Mod == 2^12

WrapAdd(a, b) == (a + b) % U64Mod

WrapSub(a, b) == ((a - b) + U64Mod) % U64Mod

Min(a, b) == IF a < b THEN a ELSE b

Max(a, b) == IF a > b THEN a ELSE b

\* ------------------------------------------------------------------ bytes
ErrByte == 9

\* seek(SeekFrom::Start(pos)); write_all(data): a write past the end of the
\* file leaves a hole of zero bytes before it.
WriteAt(bytes, pos, data) ==
    LET n == Max(Len(bytes), pos + Len(data))
    IN [i \in 1..n |->
           IF i > pos /\ i <= pos + Len(data) THEN data[i - pos]
           ELSE IF i <= Len(bytes) THEN bytes[i]
           ELSE 0]

\* File::set_len: extends with zeros.
SetLen(bytes, n) == [i \in 1..n |-> IF i <= Len(bytes) THEN bytes[i] ELSE 0]

\* ----------------------------------------------------------------- hashing
\* SHA-256 is modelled as collision free: the digest of a byte sequence
\* determines the sequence.  hex::encode writes it in lowercase.
HexDigits == <<"0", "a", "b", "c", "d", "e", "f", "1", "2", "3">>

calculate_hash(bytes) == [i \in 1..Len(bytes) |-> HexDigits[bytes[i] + 1]]

LowerOf(c) ==
    CASE c = "A" -> "a" [] c = "B" -> "b" [] c = "C" -> "c"
      [] c = "D" -> "d" [] c = "E" -> "e" [] c = "F" -> "f"
      [] OTHER -> c

UpperOf(c) ==
    CASE c = "a" -> "A" [] c = "b" -> "B" [] c = "c" -> "C"
      [] c = "d" -> "D" [] c = "e" -> "E" [] c = "f" -> "F"
      [] OTHER -> c

eq_exact(a, b) == a = b

eq_ignore_ascii_case(a, b) ==
    /\ Len(a) = Len(b)
    /\ \A i \in 1..Len(a) : LowerOf(a[i]) = LowerOf(b[i])

\* ------------------------------------------------------------- init_state
\* The partition computed by init_state for a HEAD that reports total_size.
PartSize(total_size, split_count) == total_size \div split_count

EndByte(total_size, split_count, i) ==
    IF i = split_count - 1
    THEN total_size - 1
    ELSE WrapSub((i + 1) * PartSize(total_size, split_count), 1)

InitParts(total_size, split_count) ==
    [j \in 1..split_count |->
        [index |-> j - 1,
         start_byte |-> (j - 1) * PartSize(total_size, split_count),
         end_byte |-> EndByte(total_size, split_count, j - 1),
         current_byte |-> (j - 1) * PartSize(total_size, split_count),
         completed |-> FALSE]]

\* (i + 1) * part_size - 1 underflows when part_size = 0.
InitUnderflows(total_size, split_count) ==
    \E i \in 0..(split_count - 2) : (i + 1) * PartSize(total_size, split_count) < 1

\* ------------------------------------------------------------------- state
VARIABLES
    cfg,               \* the run's configuration and the server entity's length
    disk,              \* the output directory: final file, slab, state record
    pc,                \* where the process / the engine is
    st,                \* the engine's DownloadState (behind state_mutex)
    tasks,             \* the segment tasks of the engine, by part index + 1
    fb_body,           \* the response stream of the single-connection fallback
    downloaded_files,  \* Downloader.downloaded_files (completed_files)
    run,               \* number of the process run on this output directory
    hist               \* history: clean (the server honoured HEAD and ranges
                       \* and delivered whole bodies, no I/O error, no kill
                       \* inside a state save), chunk_kill (a kill hit a
                       \* running segmented engine), hashed (the gate of this
                       \* run computed the slab's hash)

VARIABLES
    file,                    \* the slab's File behind its mutex: who holds
                             \* the lock (0: nobody) and the file cursor
    fb_chunk,                \* the fallback's chunk in flight and what the
                             \* limiter has granted for it
    items,                   \* run_downloads: the task list, one URL per item
    concurrency,             \* the permits the semaphore is created with
    rate_limit,              \* Downloader.rate_limiter: None or the quota
    sched,                   \* where run_downloads is
    semaphore,               \* permits available
    engines,                 \* the engine tasks, one per item
    size_map,                \* URLs of which the pre-scan learnt the size
    total_downloaded_bytes,  \* Downloader.total_downloaded_bytes
    total_known_bytes,       \* Downloader.total_known_bytes
    files                    \* the output directory, by URL

run_vars ==
    <<items, concurrency, rate_limit, sched, semaphore, engines, size_map,
      total_downloaded_bytes, total_known_bytes, files>>

slab_vars == <<file, fb_chunk>>

ext_vars == <<slab_vars, run_vars>>

engine_vars == <<cfg, disk, pc, st, tasks, fb_body, run, hist>>

vars ==
    <<cfg, disk, pc, st, tasks, fb_body, downloaded_files, run, hist, file, fb_chunk,
      items, concurrency, rate_limit, sched, semaphore, engines, size_map,
      total_downloaded_bytes, total_known_bytes, files>>

None == <<>>

Some(x) == <<x>>

NoState == [total_size |-> 0, parts |-> <<>>]

AbsentFile == [kind |-> "absent", total_size |-> 0, parts |-> <<>>]

CorruptFile == [kind |-> "corrupt", total_size |-> 0, parts |-> <<>>]

\* serde_json::to_string(&*s) followed by fs::write(state_filepath, ..)
SavedFile(s) == [kind |-> "ok", total_size |-> s.total_size, parts |-> s.parts]

NoTask ==
    [pc |-> "none", start |-> 0, end |-> 0, pos |-> 0, body |-> <<>>, status |-> 0,
     chunk |-> <<>>, granted |-> 0]

Entity == [i \in 1..cfg.entity_len |-> i]

Terminal ==
    {"ok", "skipped", "err_bail", "err_head", "err_single", "err_task",
     "err_mismatch", "err_missing", "panic"}

VerifyModes == {"Auto", "On", "Off"}

\* The hash column of the task list: none, the entity's digest in lowercase
\* or in uppercase, or a digest no file has.
CorrectHash(n) == calculate_hash([i \in 1..n |-> i])

UpperHash(n) == [i \in 1..n |-> UpperOf(CorrectHash(n)[i])]

WrongHash(n) == [i \in 1..n |-> IF i = 1 THEN "9" ELSE CorrectHash(n)[i]]

ItemHashes(n) == {None, Some(CorrectHash(n)), Some(UpperHash(n)), Some(WrongHash(n))}

\* run_downloads builds the map from the task list, empty under Off;
\* run_single_download always passes an empty map.
expected_hashes ==
    IF cfg.entry = "single" \/ cfg.verify_mode = "Off" THEN None ELSE cfg.item_hash

Configs(sizes, splits) ==
    {c \in [entity_len : sizes, split_count : splits, build : {"debug", "release"},
            verify_mode : VerifyModes, item_hash : UNION {ItemHashes(n) : n \in sizes},
            entry : {"list", "single"}] :
        /\ c.item_hash \in ItemHashes(c.entity_len)
        /\ c.entry = "single" => c.item_hash = None}

InitHist ==
    [clean |-> TRUE, chunk_kill |-> FALSE, hashed |-> FALSE]

\* The slab file is not open and run_downloads is not running.
NoFile == [owner |-> 0, pos |-> 0]

NoChunk == [bytes |-> <<>>, granted |-> 0]

InitNoFile == file = NoFile /\ fb_chunk = NoChunk

InitNoRun ==
    /\ items = <<>>
    /\ concurrency = 0
    /\ sched = "none"
    /\ semaphore = 0
    /\ engines = <<>>
    /\ size_map = {}
    /\ total_downloaded_bytes = 0
    /\ total_known_bytes = 0
    /\ files = <<>>

InitCommon ==
    /\ disk = [final |-> None, slab |-> None, state |-> AbsentFile]
    /\ st = NoState
    /\ tasks = <<>>
    /\ fb_body = <<>>
    /\ downloaded_files = 0
    /\ run = 1
    /\ hist = InitHist

Init ==
    /\ cfg \in Configs(1..MaxSize, 1..MaxSplit)
    /\ pc = "boot"
    /\ InitCommon
    /\ InitNoFile
    /\ InitNoRun
    /\ rate_limit = None

\* init_state: HEAD, then the partition.  head is what the HEAD request
\* does: "len" (Content-Length present), "nolen" (absent or 0), "fail".
init_state(head) ==
    IF head = "fail" THEN [kind |-> "err", total_size |-> 0, parts |-> <<>>]
    ELSE IF head = "nolen" THEN [kind |-> "ok", total_size |-> 0, parts |-> <<>>]
    ELSE IF InitUnderflows(cfg.entity_len, cfg.split_count) /\ cfg.build = "debug"
    THEN [kind |-> "panic", total_size |-> 0, parts |-> <<>>]
    ELSE [kind |-> "ok", total_size |-> cfg.entity_len,
          parts |-> InitParts(cfg.entity_len, cfg.split_count)]

\* ---------------------------------------------- init_state on its own
InitPart ==
    /\ cfg \in [entity_len : 1..MaxPartSize, split_count : 1..MaxPartSplit,
                build : {"debug", "release"}, verify_mode : {"Auto"},
                item_hash : {None}, entry : {"single"}]
    /\ pc = "part"
    /\ InitCommon
    /\ InitNoFile
    /\ InitNoRun
    /\ rate_limit = None

InitStateStep ==
    /\ pc = "part"
    /\ LET r == init_state("len")
       IN /\ pc' = IF r.kind = "panic" THEN "panic" ELSE "parted"
          /\ st' = [total_size |-> r.total_size, parts |-> r.parts]
    /\ UNCHANGED <<ext_vars, cfg, disk, tasks, fb_body, downloaded_files, run, hist>>

NextPart == InitStateStep

SpecPart == InitPart /\ [][NextPart]_vars

\* ------------------------------------------------------------ entry points
\* run_downloads: under On every item of the list needs a hash, else bail.
RunDownloads ==
    /\ pc = "boot"
    /\ cfg.entry = "list"
    /\ pc' = IF cfg.verify_mode = "On" /\ cfg.item_hash = None
             THEN "err_bail" ELSE "engine"
    /\ UNCHANGED <<ext_vars, cfg, disk, st, tasks, fb_body, downloaded_files, run, hist>>

\* run_single_download: no hash, no check of the verify mode.
RunSingleDownload ==
    /\ pc = "boot"
    /\ cfg.entry = "single"
    /\ pc' = "engine"
    /\ UNCHANGED <<ext_vars, cfg, disk, st, tasks, fb_body, downloaded_files, run, hist>>

\* ------------------------------------------------------------ download_file
\* The slab opened with create(true) and pre-allocated if shorter.
OpenSlab(slab, total_size) ==
    LET bytes == IF slab = None THEN <<>> ELSE slab[1]
    IN IF Len(bytes) < total_size THEN Some(SetLen(bytes, total_size)) ELSE Some(bytes)

\* A segment task for every part, completed or not.
SpawnTasksAll(parts) ==
    [j \in 1..Len(parts) |->
        [pc |-> "send", start |-> parts[j].current_byte, end |-> parts[j].end_byte,
         pos |-> parts[j].current_byte, body |-> <<>>, status |-> 0,
         chunk |-> <<>>, granted |-> 0]]

\* One segment task per part that is not completed.
SpawnTasks(parts) ==
    [j \in 1..Len(parts) |->
        IF parts[j].completed THEN NoTask
        ELSE [pc |-> "send", start |-> parts[j].current_byte, end |-> parts[j].end_byte,
              pos |-> parts[j].current_byte, body |-> <<>>, status |-> 0,
              chunk |-> <<>>, granted |-> 0]]

\* From the state that was loaded or initialised to the spawned tasks, or to
\* the single-connection fallback when total_size is 0.
EnterWith(state) ==
    /\ st' = state
    /\ fb_body' = <<>>
    /\ IF state.total_size = 0
       THEN /\ pc' = "fb_send"
            /\ tasks' = <<>>
            /\ disk' = disk
       ELSE /\ pc' = "await"
            /\ tasks' = SpawnTasks(state.parts)
            /\ disk' = [disk EXCEPT !.slab = OpenSlab(disk.slab, state.total_size)]

\* filepath.exists(): the file counts as completed.
DownloadFileSkip ==
    /\ pc = "engine"
    /\ disk.final # None
    /\ pc' = "skipped"
    /\ downloaded_files' = downloaded_files + 1
    /\ UNCHANGED <<ext_vars, cfg, disk, st, tasks, fb_body, run, hist>>

\* The state record exists and parses.
DownloadFileLoad ==
    /\ pc = "engine"
    /\ disk.final = None
    /\ disk.state.kind = "ok"
    /\ EnterWith([total_size |-> disk.state.total_size, parts |-> disk.state.parts])
    /\ UNCHANGED <<ext_vars, cfg, downloaded_files, run, hist>>

\* No usable state record: init_state.  Without a record its error is
\* returned; with a corrupt record it is replaced by an empty state.
DownloadFileInit ==
    /\ pc = "engine"
    /\ disk.final = None
    /\ disk.state.kind # "ok"
    /\ \E head \in {"len", "nolen", "fail"} :
         LET r == init_state(head)
         IN /\ hist' = [hist EXCEPT !.clean = @ /\ head = "len"]
            /\ IF r.kind = "panic"
               THEN /\ pc' = "panic"
                    /\ UNCHANGED <<disk, st, tasks, fb_body>>
               ELSE IF r.kind = "err" /\ disk.state.kind = "absent"
               THEN /\ pc' = "err_head"
                    /\ UNCHANGED <<disk, st, tasks, fb_body>>
               ELSE EnterWith([total_size |-> r.total_size, parts |-> r.parts])
    /\ UNCHANGED <<ext_vars, cfg, downloaded_files, run>>

\* ------------------------------------------------------------ segment tasks
\* What a server may answer to GET with Range: bytes=start-end.  A server
\* that honours ranges answers 206 with the bytes of the range that exist,
\* or 416 (with or without an error body) when the range starts past the
\* end; a server that ignores the header answers 200 with the full entity.
RangeResponses(start, end) ==
    {[status |-> 200, body |-> Entity, good |-> FALSE]}
    \cup (IF start < cfg.entity_len /\ start <= end
          THEN {[status |-> 206,
                 body |-> SubSeq(Entity, start + 1, Min(end, cfg.entity_len - 1) + 1),
                 good |-> TRUE]}
          ELSE {[status |-> 416, body |-> b, good |-> TRUE] : b \in {<<>>, <<ErrByte>>}})

\* request.send(): the response arrives, whatever its status.
SegSend(t) ==
    /\ tasks[t].pc = "send"
    /\ \E r \in RangeResponses(tasks[t].start, tasks[t].end) :
         /\ tasks' = [tasks EXCEPT ![t].pc = "stream", ![t].body = r.body,
                                   ![t].status = r.status]
         /\ hist' = [hist EXCEPT !.clean = @ /\ r.good]
    /\ UNCHANGED <<ext_vars, cfg, disk, pc, st, fb_body, downloaded_files, run>>

\* request.send() fails: the task returns the error.
SegSendFail(t) ==
    /\ tasks[t].pc = "send"
    /\ tasks' = [tasks EXCEPT ![t].pc = "err"]
    /\ hist' = [hist EXCEPT !.clean = FALSE]
    /\ UNCHANGED <<ext_vars, cfg, disk, pc, st, fb_body, downloaded_files, run>>

\* A chunk of k > 0 bytes arrives and is written at current_pos under the
\* file mutex; current_pos advances.
SegChunk(t) ==
    /\ tasks[t].pc = "stream"
    /\ tasks[t].body # <<>>
    /\ \E k \in 1..Min(MaxChunk, Len(tasks[t].body)) :
         /\ disk' = [disk EXCEPT !.slab =
                        Some(WriteAt(disk.slab[1], tasks[t].pos, SubSeq(tasks[t].body, 1, k)))]
         /\ tasks' = [tasks EXCEPT ![t].pc = "save", ![t].pos = @ + k,
                                   ![t].body = SubSeq(@, k + 1, Len(@))]
    /\ UNCHANGED <<ext_vars, cfg, pc, st, fb_body, downloaded_files, run, hist>>

\* The stream yields an error item.
SegChunkErr(t) ==
    /\ tasks[t].pc = "stream"
    /\ tasks' = [tasks EXCEPT ![t].pc = "err"]
    /\ hist' = [hist EXCEPT !.clean = FALSE]
    /\ UNCHANGED <<ext_vars, cfg, disk, pc, st, fb_body, downloaded_files, run>>

\* seek or write_all fails.
SegWriteErr(t) ==
    /\ tasks[t].pc = "stream"
    /\ tasks[t].body # <<>>
    /\ tasks' = [tasks EXCEPT ![t].pc = "err"]
    /\ hist' = [hist EXCEPT !.clean = FALSE]
    /\ UNCHANGED <<ext_vars, cfg, disk, pc, st, fb_body, downloaded_files, run>>

\* The stream ends: the body is exhausted, or the connection closed early.
SegStreamEnd(t) ==
    /\ tasks[t].pc = "stream"
    /\ tasks' = [tasks EXCEPT ![t].pc = "finish", ![t].body = <<>>]
    /\ hist' = [hist EXCEPT !.clean = @ /\ tasks[t].body = <<>>]
    /\ UNCHANGED <<ext_vars, cfg, disk, pc, st, fb_body, downloaded_files, run>>

\* p.end_byte + 1 overflows u64.
EndPlusOneOverflows(p) == p.end_byte + 1 >= U64Mod

\* The part after a chunk: current_byte and the two completion tests.
PartAfterChunk(p, current_pos) ==
    [p EXCEPT !.current_byte = current_pos,
              !.completed = IF current_pos > p.end_byte THEN TRUE
                            ELSE IF current_pos = WrapAdd(p.end_byte, 1) THEN TRUE
                            ELSE @]

\* The part after the stream has ended.
PartAfterStream(p) ==
    [p EXCEPT !.completed = TRUE, !.current_byte = WrapAdd(p.end_byte, 1)]

\* After a chunk: update the part under state_mutex and write the record.
SegSave(t) ==
    /\ tasks[t].pc = "save"
    /\ LET p == st.parts[t]
           overflow == /\ cfg.build = "debug"
                       /\ tasks[t].pos <= p.end_byte
                       /\ EndPlusOneOverflows(p)
       IN IF overflow
          THEN /\ st' = [st EXCEPT !.parts[t].current_byte = tasks[t].pos]
               /\ tasks' = [tasks EXCEPT ![t].pc = "panic"]
               /\ disk' = disk
          ELSE /\ st' = [st EXCEPT !.parts[t] = PartAfterChunk(p, tasks[t].pos)]
               /\ tasks' = [tasks EXCEPT ![t].pc = "stream"]
               /\ disk' = [disk EXCEPT !.state = SavedFile(st')]
    /\ UNCHANGED <<ext_vars, cfg, pc, fb_body, downloaded_files, run, hist>>

\* After the stream: mark the part completed and write the record.
SegFinish(t) ==
    /\ tasks[t].pc = "finish"
    /\ LET p == st.parts[t]
       IN IF cfg.build = "debug" /\ EndPlusOneOverflows(p)
          THEN /\ st' = [st EXCEPT !.parts[t].completed = TRUE]
               /\ tasks' = [tasks EXCEPT ![t].pc = "panic"]
               /\ disk' = disk
          ELSE /\ st' = [st EXCEPT !.parts[t] = PartAfterStream(p)]
               /\ tasks' = [tasks EXCEPT ![t].pc = "ok"]
               /\ disk' = [disk EXCEPT !.state = SavedFile(st')]
    /\ UNCHANGED <<ext_vars, cfg, pc, fb_body, downloaded_files, run, hist>>

\* fs::write of the record fails: the part is updated in memory, the file
\* is untouched or left truncated, the task returns the error.
SegStateWriteErr(t) ==
    /\ tasks[t].pc \in {"save", "finish"}
    /\ st' = [st EXCEPT !.parts[t] = IF tasks[t].pc = "save"
                                      THEN PartAfterChunk(@, tasks[t].pos)
                                      ELSE PartAfterStream(@)]
    /\ tasks' = [tasks EXCEPT ![t].pc = "err"]
    /\ \E f \in {disk.state, CorruptFile} : disk' = [disk EXCEPT !.state = f]
    /\ hist' = [hist EXCEPT !.clean = FALSE]
    /\ UNCHANGED <<ext_vars, cfg, pc, fb_body, downloaded_files, run>>

\* ------------------------------------------------------- join, cleanup, gate
Spawned == {t \in 1..Len(tasks) : tasks[t].pc # "none"}

\* for handle in handles { handle.await?? }: the first handle, in order,
\* that ended in an error or a panic ends the engine with an error.
JoinErr ==
    /\ pc = "await"
    /\ \E t \in Spawned :
         /\ tasks[t].pc \in {"err", "panic"}
         /\ \A u \in Spawned : u < t => tasks[u].pc = "ok"
    /\ pc' = "err_task"
    /\ UNCHANGED <<ext_vars, cfg, disk, st, tasks, fb_body, downloaded_files, run, hist>>

JoinOk ==
    /\ pc = "await"
    /\ \A t \in Spawned : tasks[t].pc = "ok"
    /\ pc' = "cleanup"
    /\ UNCHANGED <<ext_vars, cfg, disk, st, tasks, fb_body, downloaded_files, run, hist>>

\* The state record is removed before the verification gate.
Cleanup ==
    /\ pc = "cleanup"
    /\ disk' = [disk EXCEPT !.state = AbsentFile]
    /\ pc' = "verify"
    /\ UNCHANGED <<ext_vars, cfg, st, tasks, fb_body, downloaded_files, run, hist>>

\* verify_hash: Ok iff the expected hash equals the computed one.
verify_hash(expected, computed) == eq_ignore_ascii_case(expected, computed)

\* The hash/verify policy of download_file and download_single_connection.
GateAutoAsOn(mode, expected, bytes) ==
    IF mode = "Off" THEN "commit"
    ELSE IF expected # None
    THEN IF verify_hash(expected[1], calculate_hash(bytes)) THEN "verified" ELSE "mismatch"
    ELSE "missing"

Gate(mode, expected, bytes) ==
    IF mode = "Off" THEN "commit"
    ELSE IF expected # None
    THEN IF verify_hash(expected[1], calculate_hash(bytes)) THEN "verified" ELSE "mismatch"
    ELSE IF mode = "On" THEN "missing"
    ELSE "commit"

GateStep ==
    LET g == Gate(cfg.verify_mode, expected_hashes, disk.slab[1])
    IN /\ hist' = [hist EXCEPT !.hashed = g \in {"verified", "mismatch"}]
       /\ IF g \in {"commit", "verified"}
          THEN /\ disk' = [disk EXCEPT !.final = disk.slab, !.slab = None]
               /\ downloaded_files' = downloaded_files + 1
               /\ pc' = "ok"
          ELSE IF g = "mismatch"
          THEN /\ disk' = [disk EXCEPT !.slab = None]
               /\ downloaded_files' = downloaded_files
               /\ pc' = "err_mismatch"
          ELSE /\ disk' = disk
               /\ downloaded_files' = downloaded_files
               /\ pc' = "err_missing"

VerifyCommit ==
    /\ pc = "verify"
    /\ GateStep
    /\ UNCHANGED <<ext_vars, cfg, st, tasks, fb_body, run>>

\* ------------------------------------------------ single-connection fallback
\* What a server may answer to the fallback's GET: without a Range header
\* the full entity; with Range: bytes=len- the rest of the entity (206), 416
\* when nothing is left, or the full entity when it ignores the header.
SingleResponses(downloaded_len) ==
    IF downloaded_len = 0
    THEN {[status |-> 200, body |-> Entity]}
    ELSE {[status |-> 200, body |-> Entity]}
         \cup (IF downloaded_len < cfg.entity_len
               THEN {[status |-> 206,
                      body |-> SubSeq(Entity, downloaded_len + 1, cfg.entity_len)]}
               ELSE {[status |-> 416, body |-> b] : b \in {<<>>, <<ErrByte>>}})

DownloadedLen == IF disk.slab = None THEN 0 ELSE Len(disk.slab[1])

\* The request is sent and the slab opened in append mode.
SingleSend ==
    /\ pc = "fb_send"
    /\ \E r \in SingleResponses(DownloadedLen) : fb_body' = r.body
    /\ disk' = [disk EXCEPT !.slab = IF @ = None THEN Some(<<>>) ELSE @]
    /\ pc' = "fb_stream"
    /\ UNCHANGED <<ext_vars, cfg, st, tasks, downloaded_files, run, hist>>

SingleSendFail ==
    /\ pc = "fb_send"
    /\ pc' = "err_single"
    /\ UNCHANGED <<ext_vars, cfg, disk, st, tasks, fb_body, downloaded_files, run, hist>>

\* A chunk of k > 0 bytes is appended to the slab.
SingleChunk ==
    /\ pc = "fb_stream"
    /\ fb_body # <<>>
    /\ \E k \in 1..Min(MaxChunk, Len(fb_body)) :
         /\ disk' = [disk EXCEPT !.slab = Some(@[1] \o SubSeq(fb_body, 1, k))]
         /\ fb_body' = SubSeq(fb_body, k + 1, Len(fb_body))
    /\ UNCHANGED <<ext_vars, cfg, pc, st, tasks, downloaded_files, run, hist>>

\* The stream yields an error item, or write_all fails.
SingleChunkErr ==
    /\ pc = "fb_stream"
    /\ pc' = "err_single"
    /\ UNCHANGED <<ext_vars, cfg, disk, st, tasks, fb_body, downloaded_files, run, hist>>

\* The stream ends (exhausted or closed early); the file is flushed.
SingleStreamEnd ==
    /\ pc = "fb_stream"
    /\ fb_body' = <<>>
    /\ pc' = "fb_verify"
    /\ UNCHANGED <<ext_vars, cfg, disk, st, tasks, downloaded_files, run, hist>>

SingleCommit ==
    /\ pc = "fb_verify"
    /\ GateStep
    /\ UNCHANGED <<ext_vars, cfg, st, tasks, fb_body, run>>

\* ------------------------------------------------------------ the process
\* A new process on the same output directory: nothing in memory survives.
NewProcess ==
    /\ run < MaxRuns
    /\ pc' = "boot"
    /\ st' = NoState
    /\ tasks' = <<>>
    /\ fb_body' = <<>>
    /\ downloaded_files' = 0
    /\ run' = run + 1
    /\ cfg' = cfg
    /\ UNCHANGED ext_vars

\* The process is killed between two steps of a running engine.
Kill ==
    /\ pc \in {"await", "cleanup", "verify", "fb_stream", "fb_verify"}
    /\ NewProcess
    /\ disk' = disk
    /\ hist' = [hist EXCEPT !.chunk_kill = @ \/ pc = "await", !.hashed = FALSE]

\* The process is killed inside fs::write of the state record, after the
\* file was truncated and before its content was written.
KillMidSave(t) ==
    /\ tasks[t].pc \in {"save", "finish"}
    /\ NewProcess
    /\ disk' = [disk EXCEPT !.state = CorruptFile]
    /\ hist' = [hist EXCEPT !.clean = FALSE, !.hashed = FALSE]

\* The run is over (tasks detached by a failed engine die with the
\* process) and the user starts the program again.
Rerun ==
    /\ pc \in Terminal
    /\ NewProcess
    /\ disk' = disk
    /\ hist' = [hist EXCEPT !.hashed = FALSE]

TaskIds == 1..Len(tasks)

Next ==
    \/ RunDownloads
    \/ RunSingleDownload
    \/ DownloadFileSkip
    \/ DownloadFileLoad
    \/ DownloadFileInit
    \/ \E t \in TaskIds : SegSend(t)
    \/ \E t \in TaskIds : SegSendFail(t)
    \/ \E t \in TaskIds : SegChunk(t)
    \/ \E t \in TaskIds : SegChunkErr(t)
    \/ \E t \in TaskIds : SegWriteErr(t)
    \/ \E t \in TaskIds : SegStreamEnd(t)
    \/ \E t \in TaskIds : SegSave(t)
    \/ \E t \in TaskIds : SegFinish(t)
    \/ \E t \in TaskIds : SegStateWriteErr(t)
    \/ \E t \in TaskIds : KillMidSave(t)
    \/ JoinErr
    \/ JoinOk
    \/ Cleanup
    \/ VerifyCommit
    \/ SingleSend
    \/ SingleSendFail
    \/ SingleChunk
    \/ SingleChunkErr
    \/ SingleStreamEnd
    \/ SingleCommit
    \/ Kill
    \/ Rerun

Spec == Init /\ [][Next]_vars

\* ------------------------------------ the slab file, step by step (SpecSlab)
\* One engine on its slab file, chunk by chunk.  The chunk steps of Spec
\* (SegChunk, SingleChunk) are taken apart here into the steps of the loop
\* body: stream.next(), the test of the chunk's length, the rate limiter,
\* file.lock(), seek, write_all and the byte counter.  The HEAD either
\* reported the length (segment tasks on the shared File behind its mutex) or
\* did not (the single-connection fallback).  The server answers every range
\* with its bytes; a stream may still end early.  A chunk is far shorter than
\* 2^32 bytes, so that len as u32 is len.
MaxSlabSize == 4
MaxSlabSplit == 2

RateLimits == {None} \cup {Some(l) : l \in 1..MaxChunk}

InitSlab ==
    /\ cfg \in [entity_len : MaxSlabSplit..MaxSlabSize, split_count : 2..MaxSlabSplit,
                build : {"release"}, verify_mode : {"Off"}, item_hash : {None},
                entry : {"single"}]
    /\ rate_limit \in RateLimits
    /\ \/ /\ pc = "await"
          /\ st = [total_size |-> cfg.entity_len,
                   parts |-> InitParts(cfg.entity_len, cfg.split_count)]
          /\ tasks = SpawnTasks(st.parts)
          /\ disk = [final |-> None, slab |-> OpenSlab(None, cfg.entity_len),
                     state |-> AbsentFile]
       \/ /\ pc = "fb_send"
          /\ st = NoState
          /\ tasks = <<>>
          /\ disk = [final |-> None, slab |-> None, state |-> AbsentFile]
    /\ fb_body = <<>>
    /\ downloaded_files = 0
    /\ run = 1
    /\ hist = InitHist
    /\ InitNoFile
    /\ InitNoRun

\* request.send() answered by a server that honours the range: the byte
\* stream of the segment.
SegSendRange(t) ==
    /\ tasks[t].pc = "send"
    /\ \E r \in {x \in RangeResponses(tasks[t].start, tasks[t].end) : x.good} :
         tasks' = [tasks EXCEPT ![t].pc = "stream", ![t].body = r.body,
                                ![t].status = r.status]
    /\ UNCHANGED <<ext_vars, cfg, disk, pc, st, fb_body, downloaded_files, run, hist>>

\* Every chunk going to file.lock(), the limiter never asked.
StreamNextUnlimited(t) ==
    /\ tasks[t].pc = "stream"
    /\ \E k \in 0..Min(MaxChunk, Len(tasks[t].body)) :
         tasks' = [tasks EXCEPT ![t].pc = IF k = 0 THEN "stream" ELSE "lock",
                                ![t].chunk = SubSeq(tasks[t].body, 1, k),
                                ![t].body = SubSeq(@, k + 1, Len(@))]
    /\ UNCHANGED <<ext_vars, cfg, disk, pc, st, fb_body, downloaded_files, run, hist>>

\* stream.next().await yields a chunk of k >= 0 bytes; if len > 0 the chunk
\* goes to the limiter when there is one, else to file.lock(); an empty chunk
\* goes back to stream.next().
StreamNext(t) ==
    /\ tasks[t].pc = "stream"
    /\ \E k \in 0..Min(MaxChunk, Len(tasks[t].body)) :
         tasks' = [tasks EXCEPT ![t].pc = IF k = 0 THEN "stream"
                                          ELSE IF rate_limit = None THEN "lock"
                                          ELSE "limit",
                                ![t].chunk = SubSeq(tasks[t].body, 1, k),
                                ![t].body = SubSeq(@, k + 1, Len(@))]
    /\ UNCHANGED <<ext_vars, cfg, disk, pc, st, fb_body, downloaded_files, run, hist>>

\* limiter.until_n_ready(len).await.unwrap(): the limiter grants len cells,
\* or the chunk is larger than the quota and the unwrap panics.
LimiterReady(t) ==
    /\ tasks[t].pc = "limit"
    /\ tasks' = IF Len(tasks[t].chunk) > rate_limit[1]
                THEN [tasks EXCEPT ![t].pc = "panic"]
                ELSE [tasks EXCEPT ![t].pc = "lock", ![t].granted = Len(tasks[t].chunk)]
    /\ hist' = [hist EXCEPT !.clean = @ /\ Len(tasks[t].chunk) <= rate_limit[1]]
    /\ UNCHANGED <<ext_vars, cfg, disk, pc, st, fb_body, downloaded_files, run>>

\* Taking the lock without waiting for its holder.
FileLockNoWait(t) ==
    /\ tasks[t].pc = "lock"
    /\ file' = [file EXCEPT !.owner = t]
    /\ tasks' = [tasks EXCEPT ![t].pc = "seek"]
    /\ UNCHANGED <<run_vars, fb_chunk, cfg, disk, pc, st, fb_body, downloaded_files, run,
                   hist>>

\* file.lock().await
FileLock(t) ==
    /\ tasks[t].pc = "lock"
    /\ file.owner = 0
    /\ file' = [file EXCEPT !.owner = t]
    /\ tasks' = [tasks EXCEPT ![t].pc = "seek"]
    /\ UNCHANGED <<run_vars, fb_chunk, cfg, disk, pc, st, fb_body, downloaded_files, run,
                   hist>>

\* f.seek(SeekFrom::Start(current_pos)): the cursor of the shared file.
FileSeek(t) ==
    /\ tasks[t].pc = "seek"
    /\ file' = [file EXCEPT !.pos = tasks[t].pos]
    /\ tasks' = [tasks EXCEPT ![t].pc = "write"]
    /\ UNCHANGED <<run_vars, fb_chunk, cfg, disk, pc, st, fb_body, downloaded_files, run,
                   hist>>

\* f.write_all(&chunk) at the cursor; the guard is dropped at the end of the
\* block; current_pos += len; total_downloaded_bytes.fetch_add(len).
FileWriteAll(t) ==
    /\ tasks[t].pc = "write"
    /\ disk' = [disk EXCEPT !.slab = Some(WriteAt(disk.slab[1], file.pos, tasks[t].chunk))]
    /\ file' = [owner |-> IF file.owner = t THEN 0 ELSE file.owner,
                pos |-> file.pos + Len(tasks[t].chunk)]
    /\ tasks' = [tasks EXCEPT ![t].pc = "save", ![t].pos = @ + Len(tasks[t].chunk),
                              ![t].chunk = <<>>, ![t].granted = 0]
    /\ total_downloaded_bytes' = total_downloaded_bytes + Len(tasks[t].chunk)
    /\ UNCHANGED <<fb_chunk, items, concurrency, rate_limit, sched, semaphore, engines,
                   size_map, total_known_bytes, files, cfg, pc, st, fb_body,
                   downloaded_files, run, hist>>

\* The fallback's stream.next().await: a chunk of k >= 0 bytes, tested and
\* sent on like a segment's.
SingleNext ==
    /\ pc = "fb_stream"
    /\ \E k \in 0..Min(MaxChunk, Len(fb_body)) :
         /\ fb_chunk' = [bytes |-> SubSeq(fb_body, 1, k), granted |-> 0]
         /\ fb_body' = SubSeq(fb_body, k + 1, Len(fb_body))
         /\ pc' = IF k = 0 THEN "fb_stream"
                  ELSE IF rate_limit = None THEN "fb_write"
                  ELSE "fb_limit"
    /\ UNCHANGED <<run_vars, file, cfg, disk, st, tasks, downloaded_files, run, hist>>

\* The fallback's limiter.until_n_ready(len).await.unwrap(), in the engine's
\* own task.
SingleLimiterReady ==
    /\ pc = "fb_limit"
    /\ IF Len(fb_chunk.bytes) > rate_limit[1]
       THEN /\ pc' = "panic"
            /\ fb_chunk' = fb_chunk
       ELSE /\ pc' = "fb_write"
            /\ fb_chunk' = [fb_chunk EXCEPT !.granted = Len(fb_chunk.bytes)]
    /\ hist' = [hist EXCEPT !.clean = @ /\ Len(fb_chunk.bytes) <= rate_limit[1]]
    /\ UNCHANGED <<run_vars, file, cfg, disk, st, tasks, fb_body, downloaded_files, run>>

\* The fallback's file.write_all(&chunk) in append mode and
\* total_downloaded_bytes.fetch_add(len).
SingleWriteAll ==
    /\ pc = "fb_write"
    /\ disk' = [disk EXCEPT !.slab = Some(@[1] \o fb_chunk.bytes)]
    /\ total_downloaded_bytes' = total_downloaded_bytes + Len(fb_chunk.bytes)
    /\ fb_chunk' = NoChunk
    /\ pc' = "fb_stream"
    /\ UNCHANGED <<file, items, concurrency, rate_limit, sched, semaphore, engines,
                   size_map, total_known_bytes, files, cfg, st, tasks, fb_body,
                   downloaded_files, run, hist>>

NextSlab ==
    \/ \E t \in TaskIds : SegSendRange(t)
    \/ \E t \in TaskIds : StreamNext(t)
    \/ \E t \in TaskIds : LimiterReady(t)
    \/ \E t \in TaskIds : FileLock(t)
    \/ \E t \in TaskIds : FileSeek(t)
    \/ \E t \in TaskIds : FileWriteAll(t)
    \/ \E t \in TaskIds : SegStreamEnd(t)
    \/ \E t \in TaskIds : SegSave(t)
    \/ \E t \in TaskIds : SegFinish(t)
    \/ JoinErr
    \/ JoinOk
    \/ SingleSend
    \/ SingleNext
    \/ SingleLimiterReady
    \/ SingleWriteAll
    \/ SingleStreamEnd
    \/ SingleCommit

SpecSlab == InitSlab /\ [][NextSlab]_vars

\* ------------------------------------------------ run_downloads (SpecRun)
\* A task-list run: the pre-scan, the semaphore, one engine task per item
\* and the global counters.  Each engine runs with split 1 under verify
\* mode Off against a server that honours ranges, so its segment task is one
\* stream of the bytes the state record does not have yet, and its gate
\* renames.  URL u names an entity of UrlSize(u) bytes: 2 bytes behind the
\* first URL, 1 byte behind any other.
MaxItems == 2
MaxUrls == 1
MaxConc == 1

Urls == 1..MaxUrls

UrlSize(u) == IF u = 1 THEN 2 ELSE 1

RECURSIVE SumSizes(_)
SumSizes(S) ==
    IF S = {} THEN 0
    ELSE LET u == CHOOSE x \in S : TRUE
         IN UrlSize(u) + SumSizes(S \ {u})

TaskLists == UNION {[1..n -> Urls] : n \in 1..MaxItems}

RunCfg ==
    [entity_len |-> 0, split_count |-> 1, build |-> "release", verify_mode |-> "Off",
     item_hash |-> None, entry |-> "list"]

\* What the output directory may hold for URL u when the run starts:
\* nothing, the final file, or the slab and the state record of a run that
\* was killed.
StartFiles(u) ==
    {[final |-> None, slab |-> None, state |-> None],
     [final |-> Some(UrlSize(u)), slab |-> None, state |-> None]}
    \cup {[final |-> None, slab |-> Some(UrlSize(u)), state |-> Some(k)] : k \in 1..UrlSize(u)}

InitRun ==
    /\ items \in TaskLists
    /\ concurrency \in 0..MaxConc
    /\ rate_limit \in {None, Some(1)}
    /\ files \in {f \in [Urls -> UNION {StartFiles(u) : u \in Urls}] :
                     \A u \in Urls : f[u] \in StartFiles(u)}
    /\ sched = "start"
    /\ semaphore = 0
    /\ engines = <<>>
    /\ size_map = {}
    /\ total_downloaded_bytes = 0
    /\ total_known_bytes = 0
    /\ cfg = RunCfg
    /\ pc = "run"
    /\ InitCommon
    /\ InitNoFile

EngineIds == 1..Len(engines)

Running == {i \in EngineIds : engines[i].pc \in {"start", "stream", "fb_send", "fb_stream"}}

\* run_downloads up to its join loop: get_total_size (the HEAD of any URL
\* may fail or come without a length), Downloader::new, the semaphore, one
\* spawned task per item.
RunDownloadsStart ==
    /\ sched = "start"
    /\ \E known \in SUBSET {items[i] : i \in 1..Len(items)} :
         /\ size_map' = known
         /\ total_known_bytes' = SumSizes(known)
    /\ semaphore' = concurrency
    /\ engines' = [i \in 1..Len(items) |-> [pc |-> "spawned", url |-> items[i], left |-> 0]]
    /\ sched' = "join"
    /\ UNCHANGED <<engine_vars, slab_vars, items, concurrency, rate_limit,
                   total_downloaded_bytes, downloaded_files, files>>

\* Taking a permit that is not there.
AcquireNoPermit(i) ==
    /\ sched = "join"
    /\ engines[i].pc = "spawned"
    /\ semaphore' = semaphore - 1
    /\ engines' = [engines EXCEPT ![i].pc = "start"]
    /\ UNCHANGED <<engine_vars, slab_vars, items, concurrency, rate_limit, sched, size_map,
                   total_downloaded_bytes, total_known_bytes, downloaded_files, files>>

\* semaphore_clone.acquire().await
Acquire(i) ==
    /\ sched = "join"
    /\ engines[i].pc = "spawned"
    /\ semaphore > 0
    /\ semaphore' = semaphore - 1
    /\ engines' = [engines EXCEPT ![i].pc = "start"]
    /\ UNCHANGED <<engine_vars, slab_vars, items, concurrency, rate_limit, sched, size_map,
                   total_downloaded_bytes, total_known_bytes, downloaded_files, files>>

\* download_file has returned (or panicked) in task i: the task ends and
\* its permit is dropped.
Release(i, outcome) ==
    /\ engines' = [engines EXCEPT ![i].pc = outcome, ![i].left = 0]
    /\ semaphore' = semaphore + 1

\* The skip branch adding the file's length to the known bytes whether or
\* not the pre-scan had the URL.
EngineSkipAlwaysKnown(i) ==
    /\ sched = "join"
    /\ engines[i].pc = "start"
    /\ files[engines[i].url].final # None
    /\ LET size == files[engines[i].url].final[1]
       IN /\ downloaded_files' = downloaded_files + 1
          /\ total_downloaded_bytes' = total_downloaded_bytes + size
          /\ total_known_bytes' = total_known_bytes + size
    /\ Release(i, "ok")
    /\ UNCHANGED <<engine_vars, slab_vars, items, concurrency, rate_limit, sched, size_map,
                   files>>

\* filepath.exists(): the skip branch of download_file.
EngineSkip(i) ==
    /\ sched = "join"
    /\ engines[i].pc = "start"
    /\ files[engines[i].url].final # None
    /\ LET size == files[engines[i].url].final[1]
       IN /\ downloaded_files' = downloaded_files + 1
          /\ total_downloaded_bytes' = total_downloaded_bytes + size
          /\ total_known_bytes' = IF engines[i].url \in size_map
                                  THEN total_known_bytes
                                  ELSE total_known_bytes + size
    /\ Release(i, "ok")
    /\ UNCHANGED <<engine_vars, slab_vars, items, concurrency, rate_limit, sched, size_map,
                   files>>

\* The skip branch counting the file before it reads the metadata.
EngineSkipErrCounted(i) ==
    /\ sched = "join"
    /\ engines[i].pc = "start"
    /\ files[engines[i].url].final # None
    /\ downloaded_files' = downloaded_files + 1
    /\ Release(i, "err")
    /\ UNCHANGED <<engine_vars, slab_vars, items, concurrency, rate_limit, sched, size_map,
                   total_downloaded_bytes, total_known_bytes, files>>

\* fs::metadata(&filepath) or metadata.created() fails in the skip branch.
EngineSkipErr(i) ==
    /\ sched = "join"
    /\ engines[i].pc = "start"
    /\ files[engines[i].url].final # None
    /\ Release(i, "err")
    /\ UNCHANGED <<engine_vars, slab_vars, items, concurrency, rate_limit, sched, size_map,
                   total_downloaded_bytes, total_known_bytes, downloaded_files, files>>

\* No final file: the state is loaded from the record or initialised by
\* init_state, the known bytes are updated, and the engine goes on to its
\* segment task (slab opened and pre-allocated) or to the fallback.
EngineOpen(i) ==
    /\ sched = "join"
    /\ engines[i].pc = "start"
    /\ LET u == engines[i].url
           f == files[u]
       IN /\ f.final = None
          /\ \E head \in IF f.state # None THEN {"loaded"} ELSE {"len", "nolen", "fail"} :
               LET total_size == IF head \in {"loaded", "len"} THEN UrlSize(u) ELSE 0
                   current == IF head = "loaded" THEN f.state[1] ELSE 0
               IN IF head = "fail"
                  THEN /\ Release(i, "err")
                       /\ UNCHANGED <<total_known_bytes, files>>
                  ELSE /\ total_known_bytes' = IF u \notin size_map /\ total_size > 0
                                               THEN total_known_bytes + total_size
                                               ELSE total_known_bytes
                       /\ semaphore' = semaphore
                       /\ IF total_size = 0
                          THEN /\ engines' = [engines EXCEPT ![i].pc = "fb_send"]
                               /\ files' = files
                          ELSE /\ engines' = [engines EXCEPT ![i].pc = "stream",
                                                            ![i].left = total_size - current]
                               /\ files' = [files EXCEPT ![u].slab =
                                               IF @ = None THEN Some(total_size)
                                               ELSE Some(Max(@[1], total_size))]
    /\ UNCHANGED <<engine_vars, slab_vars, items, concurrency, rate_limit, sched, size_map,
                   total_downloaded_bytes, downloaded_files>>

\* A chunk of the segment task: the limiter (its unwrap panics in the task
\* when the chunk is larger than the quota, which the join turns into an
\* error of the engine), the write, the counter, the state record.
EngineChunk(i) ==
    /\ sched = "join"
    /\ engines[i].pc = "stream"
    /\ engines[i].left > 0
    /\ LET u == engines[i].url
       IN \E k \in 1..Min(MaxChunk, engines[i].left) :
            IF rate_limit # None /\ k > rate_limit[1]
            THEN /\ Release(i, "err")
                 /\ UNCHANGED <<total_downloaded_bytes, files>>
            ELSE /\ total_downloaded_bytes' = total_downloaded_bytes + k
                 /\ files' = [files EXCEPT ![u].state =
                                 Some(UrlSize(u) - engines[i].left + k)]
                 /\ engines' = [engines EXCEPT ![i].left = @ - k]
                 /\ semaphore' = semaphore
    /\ UNCHANGED <<engine_vars, slab_vars, items, concurrency, rate_limit, sched, size_map,
                   total_known_bytes, downloaded_files>>

\* The stream has ended: the join, the cleanup of the state record, the
\* rename of the slab (which fails when the slab is gone), the count.
EngineCommit(i) ==
    /\ sched = "join"
    /\ engines[i].pc = "stream"
    /\ engines[i].left = 0
    /\ LET u == engines[i].url
       IN IF files[u].slab # None
          THEN /\ files' = [files EXCEPT ![u] =
                               [final |-> files[u].slab, slab |-> None, state |-> None]]
               /\ downloaded_files' = downloaded_files + 1
               /\ Release(i, "ok")
          ELSE /\ files' = [files EXCEPT ![u].state = None]
               /\ downloaded_files' = downloaded_files
               /\ Release(i, "err")
    /\ UNCHANGED <<engine_vars, slab_vars, items, concurrency, rate_limit, sched, size_map,
                   total_downloaded_bytes, total_known_bytes>>

\* An HTTP or I/O error in the engine, returned to the task.
EngineFailAborts(i) ==
    /\ sched = "join"
    /\ engines[i].pc \in {"stream", "fb_send", "fb_stream"}
    /\ Release(i, "err")
    /\ sched' = "returned_err"
    /\ UNCHANGED <<engine_vars, slab_vars, items, concurrency, rate_limit, size_map,
                   total_downloaded_bytes, total_known_bytes, downloaded_files, files>>

EngineFail(i) ==
    /\ sched = "join"
    /\ engines[i].pc \in {"stream", "fb_send", "fb_stream"}
    /\ Release(i, "err")
    /\ UNCHANGED <<engine_vars, slab_vars, items, concurrency, rate_limit, sched, size_map,
                   total_downloaded_bytes, total_known_bytes, downloaded_files, files>>

\* download_single_connection: the GET (with Range when a slab exists), the
\* known bytes from the response's Content-Length when it has one, the slab
\* opened in append mode.
FallbackSend(i) ==
    /\ sched = "join"
    /\ engines[i].pc = "fb_send"
    /\ LET u == engines[i].url
           downloaded_len == IF files[u].slab = None THEN 0 ELSE files[u].slab[1]
           body_len == Max(UrlSize(u) - downloaded_len, 0)
       IN /\ \E content_length \in {0, body_len} :
               LET total_size == content_length + downloaded_len
               IN total_known_bytes' = IF total_size > 0 /\ u \notin size_map
                                       THEN total_known_bytes + total_size
                                       ELSE total_known_bytes
          /\ files' = [files EXCEPT ![u].slab = Some(downloaded_len)]
          /\ engines' = [engines EXCEPT ![i].pc = "fb_stream", ![i].left = body_len]
    /\ UNCHANGED <<engine_vars, slab_vars, items, concurrency, rate_limit, sched, semaphore,
                   size_map, total_downloaded_bytes, downloaded_files>>

\* A chunk of the fallback: the limiter (its unwrap panics in the engine's
\* own task when the chunk is larger than the quota), the append, the
\* counter.
FallbackChunk(i) ==
    /\ sched = "join"
    /\ engines[i].pc = "fb_stream"
    /\ engines[i].left > 0
    /\ LET u == engines[i].url
       IN \E k \in 1..Min(MaxChunk, engines[i].left) :
            IF rate_limit # None /\ k > rate_limit[1]
            THEN /\ Release(i, "panic")
                 /\ UNCHANGED <<total_downloaded_bytes, files>>
            ELSE /\ total_downloaded_bytes' = total_downloaded_bytes + k
                 /\ files' = [files EXCEPT ![u].slab =
                                 IF @ = None THEN None ELSE Some(@[1] + k)]
                 /\ engines' = [engines EXCEPT ![i].left = @ - k]
                 /\ semaphore' = semaphore
    /\ UNCHANGED <<engine_vars, slab_vars, items, concurrency, rate_limit, sched, size_map,
                   total_known_bytes, downloaded_files>>

\* The fallback's stream has ended: flush, the rename, the count.
FallbackCommit(i) ==
    /\ sched = "join"
    /\ engines[i].pc = "fb_stream"
    /\ engines[i].left = 0
    /\ LET u == engines[i].url
       IN IF files[u].slab # None
          THEN /\ files' = [files EXCEPT ![u].final = files[u].slab, ![u].slab = None]
               /\ downloaded_files' = downloaded_files + 1
               /\ Release(i, "ok")
          ELSE /\ files' = files
               /\ downloaded_files' = downloaded_files
               /\ Release(i, "err")
    /\ UNCHANGED <<engine_vars, slab_vars, items, concurrency, rate_limit, sched, size_map,
                   total_downloaded_bytes, total_known_bytes>>

\* for handle in handles { handle.await?; }: the handles are awaited in
\* order.  A task that panicked makes run_downloads return the JoinError as
\* soon as every handle before it has ended.
FirstPanic(i) ==
    /\ engines[i].pc = "panic"
    /\ \A j \in 1..(i - 1) : engines[j].pc \in {"ok", "err"}

RunJoinPanic ==
    /\ sched = "join"
    /\ \E i \in EngineIds : FirstPanic(i)
    /\ sched' = "returned_err"
    /\ UNCHANGED <<engine_vars, slab_vars, items, concurrency, rate_limit, semaphore, engines,
                   size_map, total_downloaded_bytes, total_known_bytes, downloaded_files,
                   files>>

\* Every handle was awaited and none had panicked: Ok(()).
RunReturn ==
    /\ sched = "join"
    /\ \A i \in EngineIds : engines[i].pc \in {"ok", "err"}
    /\ sched' = "returned_ok"
    /\ UNCHANGED <<engine_vars, slab_vars, items, concurrency, rate_limit, semaphore, engines,
                   size_map, total_downloaded_bytes, total_known_bytes, downloaded_files,
                   files>>

NextRun ==
    \/ RunDownloadsStart
    \/ \E i \in EngineIds : Acquire(i)
    \/ \E i \in EngineIds : EngineSkip(i)
    \/ \E i \in EngineIds : EngineSkipErr(i)
    \/ \E i \in EngineIds : EngineOpen(i)
    \/ \E i \in EngineIds : EngineChunk(i)
    \/ \E i \in EngineIds : EngineCommit(i)
    \/ \E i \in EngineIds : EngineFail(i)
    \/ \E i \in EngineIds : FallbackSend(i)
    \/ \E i \in EngineIds : FallbackChunk(i)
    \/ \E i \in EngineIds : FallbackCommit(i)
    \/ RunJoinPanic
    \/ RunReturn

SpecRun == InitRun /\ [][NextRun]_vars

\* ------------------------------------------ file names of a run (SpecNames)
\* A task-list run seen from the output directory: each engine derives its
\* three paths from the last segment of its URL's path and works on them.
\* A URL is its host and the last segment of its path, a string of
\* characters; files is the set of paths that exist.  Every HEAD reports a
\* length and every download is one chunk long.
MaxNameLen == 1
MaxHosts == 2
MaxCpus == 2

NameChars == {"a", "+", "~", "_"}

Alphanumeric == {"a", "d", "1", "2", "3"}

Names == UNION {[1..n -> NameChars] : n \in 0..MaxNameLen}

NameUrls == [host : 1..MaxHosts, last : Names]

Uuid(i) == IF i = 1 THEN "1" ELSE IF i = 2 THEN "2" ELSE "3"

\* The last segment of the URL's path, or download_<uuid> when it is empty;
\* the uuid is fresh in every call.
get_filename_from_url(url, i) ==
    IF url.last # <<>> THEN url.last ELSE <<"d", "_", Uuid(i)>>

sanitize_filename(filename) ==
    [k \in 1..Len(filename) |->
        IF filename[k] \in Alphanumeric \cup {".", "-", "_"} THEN filename[k] ELSE "_"]

FinalPath(name) == name

PartPath(name) == name \o <<".part">>

StatePath(name) == name \o <<".part.json">>

InitNames ==
    /\ items \in [1..MaxItems -> NameUrls]
    /\ concurrency \in 1..MaxCpus
    /\ rate_limit = None
    /\ files = {}
    /\ sched = "start"
    /\ semaphore = 0
    /\ engines = <<>>
    /\ size_map = {}
    /\ total_downloaded_bytes = 0
    /\ total_known_bytes = 0
    /\ cfg = RunCfg
    /\ pc = "run"
    /\ InitCommon
    /\ InitNoFile

\* run_downloads up to its join loop: the semaphore and one task per item.
NamesStart ==
    /\ sched = "start"
    /\ semaphore' = concurrency
    /\ engines' = [i \in 1..Len(items) |-> [pc |-> "spawned", url |-> items[i], name |-> <<>>]]
    /\ sched' = "join"
    /\ UNCHANGED <<engine_vars, slab_vars, items, concurrency, rate_limit, size_map,
                   total_downloaded_bytes, total_known_bytes, downloaded_files, files>>

\* download_file up to the opening of the slab: the paths, the skip when the
\* final file exists, else the slab created.
NamesEnter(i) ==
    /\ sched = "join"
    /\ engines[i].pc = "start"
    /\ LET name == sanitize_filename(get_filename_from_url(engines[i].url, i))
       IN IF FinalPath(name) \in files
          THEN /\ Release(i, "ok")
               /\ downloaded_files' = downloaded_files + 1
               /\ files' = files
          ELSE /\ engines' = [engines EXCEPT ![i].pc = "stream", ![i].name = name]
               /\ semaphore' = semaphore
               /\ downloaded_files' = downloaded_files
               /\ files' = files \cup {PartPath(name)}
    /\ UNCHANGED <<engine_vars, slab_vars, items, concurrency, rate_limit, sched, size_map,
                   total_downloaded_bytes, total_known_bytes>>

\* The chunk of the segment task: written to the slab, then the state
\* record written.
NamesChunk(i) ==
    /\ sched = "join"
    /\ engines[i].pc = "stream"
    /\ engines' = [engines EXCEPT ![i].pc = "join"]
    /\ files' = files \cup {StatePath(engines[i].name)}
    /\ UNCHANGED <<engine_vars, slab_vars, items, concurrency, rate_limit, sched, semaphore,
                   size_map, total_downloaded_bytes, total_known_bytes, downloaded_files>>

\* The join, the removal of the state record if it exists, the rename of
\* the slab, which fails when the slab is not there.
NamesCommit(i) ==
    /\ sched = "join"
    /\ engines[i].pc = "join"
    /\ LET name == engines[i].name
       IN IF PartPath(name) \in files
          THEN /\ files' = (files \ {StatePath(name), PartPath(name)}) \cup {FinalPath(name)}
               /\ downloaded_files' = downloaded_files + 1
               /\ engines' = [engines EXCEPT ![i].pc = "ok"]
          ELSE /\ files' = files \ {StatePath(name)}
               /\ downloaded_files' = downloaded_files
               /\ engines' = [engines EXCEPT ![i].pc = "err"]
    /\ semaphore' = semaphore + 1
    /\ UNCHANGED <<engine_vars, slab_vars, items, concurrency, rate_limit, sched, size_map,
                   total_downloaded_bytes, total_known_bytes>>

NextNames ==
    \/ NamesStart
    \/ \E i \in EngineIds : Acquire(i)
    \/ \E i \in EngineIds : NamesEnter(i)
    \/ \E i \in EngineIds : NamesChunk(i)
    \/ \E i \in EngineIds : NamesCommit(i)
    \/ RunReturn

SpecNames == InitNames /\ [][NextNames]_vars

\* ==================================================================== claims
PartsOk(parts) == \A i \in 1..Len(parts) : parts[i].start_byte <= parts[i].end_byte

\* C1: for every total_size >= 1 and split count S >= 1, init_state returns
\* exactly S segments, the first starting at 0, each next one starting right
\* after the previous one's end, none empty, the last ending at
\* total_size - 1.
C1_Partition ==
    pc # "part" =>
        /\ pc = "parted"
        /\ Len(st.parts) = cfg.split_count
        /\ st.parts[1].start_byte = 0
        /\ \A i \in 2..Len(st.parts) :
              st.parts[i].start_byte = st.parts[i - 1].end_byte + 1
        /\ PartsOk(st.parts)
        /\ st.parts[Len(st.parts)].end_byte = cfg.entity_len - 1

\* The parts of the state in memory and of the state record on disk.
AllParts ==
    {st.parts[i] : i \in 1..Len(st.parts)}
    \cup {disk.state.parts[i] : i \in 1..Len(disk.state.parts)}

\* C2: in every state in memory and every persisted record, each part has
\* start_byte <= current_byte <= end_byte + 1, whatever the server delivers.
C2_CurrentByteInRange ==
    \A p \in AllParts :
        p.start_byte <= p.current_byte /\ p.current_byte <= p.end_byte + 1

\* C3: in every state in memory and every persisted record, a part is
\* completed if and only if current_byte = end_byte + 1.  Stated for the
\* sizes on which init_state does not underflow, so that a violation is one
\* of the completion marking itself.
C3_CompletedIffDone ==
    cfg.entity_len >= cfg.split_count =>
        \A p \in AllParts : p.completed <=> p.current_byte = p.end_byte + 1

\* The verification gate lets the server entity through.
GateAccepts == Gate(cfg.verify_mode, expected_hashes, Entity) \in {"commit", "verified"}

\* C4: resume correctness.  When a run of the segmented engine was killed
\* between two steps of its segment tasks, and the server honours ranges
\* and nothing else fails, every later run that ends has committed (or
\* found) a final file equal to the server entity.
C4_ResumeIdentical ==
    (hist.chunk_kill /\ hist.clean /\ GateAccepts /\ pc \in Terminal) =>
        /\ pc \in {"ok", "skipped"}
        /\ disk.final = Some(Entity)

\* The stream of task t has ended before the task's range was delivered.
ShortStream(t) == tasks[t].pc \in {"finish", "ok"} /\ tasks[t].pos <= tasks[t].end

\* C5: when the stream of a segment ends before the range is delivered, the
\* task does not return Ok, the part is not marked completed, the engine
\* does not go on to commit, and the record keeps the true current_byte.
C5_ShortStreamFails ==
    \A t \in 1..Len(tasks) :
        ShortStream(t) =>
            /\ tasks[t].pc # "ok"
            /\ ~st.parts[t].completed
            /\ pc \notin {"cleanup", "verify", "ok"}
            /\ disk.state.kind = "ok" =>
                  disk.state.parts[t].current_byte = tasks[t].pos

\* C6: when the server answered a ranged GET of a segment with 200, the
\* engine does not go on to the commit: it ends in failure, with no final
\* file and with the slab in place.  (Whether a state record exists after a
\* failure is the subject of C7.)
C6_Status200Fails ==
    (\E t \in 1..Len(tasks) : tasks[t].status = 200) =>
        /\ pc \notin {"cleanup", "verify", "ok"}
        /\ pc \in Terminal =>
              /\ pc = "err_task"
              /\ disk.final = None
              /\ disk.slab # None

\* C7: when a segment task returned an error and the engine has returned,
\* the engine returned failure, the state record and the slab exist and
\* there is no final file.
C7_TaskErrorKeepsFiles ==
    (pc \in Terminal /\ \E t \in 1..Len(tasks) : tasks[t].pc = "err") =>
        /\ pc = "err_task"
        /\ disk.state.kind # "absent"
        /\ disk.slab # None
        /\ disk.final = None

ToLower(str) == [i \in 1..Len(str) |-> LowerOf(str[i])]

\* The step of an engine through its verification gate.
GateTaken == pc \in {"verify", "fb_verify"} /\ pc' \in Terminal

Committed == pc' = "ok" /\ disk'.final = disk.slab /\ disk'.slab = None

\* C8: under On or Auto with an expected hash for the URL, the gate (of the
\* segmented path and of the fallback) renames the slab to the final path
\* if and only if the slab's SHA-256 equals the expected hash, letter case
\* ignored.
C8_HashGate ==
    [][(GateTaken /\ cfg.verify_mode \in {"On", "Auto"} /\ expected_hashes # None) =>
          (Committed <=>
              ToLower(expected_hashes[1]) = ToLower(calculate_hash(disk.slab[1])))]_vars

\* A fallback download committed against an expected hash in uppercase.
C8_Witness ==
    /\ pc = "ok"
    /\ hist.hashed
    /\ st.total_size = 0
    /\ cfg.item_hash = Some(UpperHash(cfg.entity_len))
    /\ disk.final = Some(Entity)

\* C9: after a hash mismatch none of the final file, the slab and the state
\* record exists, and completed_files was not incremented.
C9_MismatchRemovesAll ==
    pc = "err_mismatch" =>
        /\ disk.final = None
        /\ disk.slab = None
        /\ disk.state.kind = "absent"
        /\ downloaded_files = 0

NoHashPolicy ==
    \/ cfg.verify_mode = "Off"
    \/ (cfg.verify_mode = "Auto" /\ cfg.item_hash = None)

\* C10: under Off (whatever hash the task list gave) and under Auto without
\* a hash, the gate commits the slab to the final path without hashing it.
C10_CommitWithoutHash ==
    [][(GateTaken /\ NoHashPolicy) => (Committed /\ ~hist'.hashed)]_vars

\* Committed under Off although the task list gave a wrong hash.
C10_Witness ==
    /\ pc = "ok"
    /\ cfg.verify_mode = "Off"
    /\ cfg.item_hash = Some(WrongHash(cfg.entity_len))
    /\ ~hist.hashed
    /\ disk.final # None

\* C11: under On, when an item has no expected hash, the run fails before
\* any download begins, whichever entry point started it: no engine and no
\* segment task is started, no slab and no state record is created.
C11_OnMissingHashFailsEarly ==
    (cfg.verify_mode = "On" /\ cfg.item_hash = None) =>
        /\ pc \in {"boot", "err_bail"}
        /\ tasks = <<>>
        /\ disk.slab = None
        /\ disk.state.kind = "absent"

\* The segmented engine of this run is past its cleanup step, which removed
\* the state record, and did not end in a hash mismatch.
StateRemoved == pc \in {"verify", "ok", "err_missing"} /\ st.total_size > 0

\* C12: in every state in which the engine has removed the state record and
\* no hash mismatch occurred, the final file exists.
C12_StateRemovedAfterCommit ==
    StateRemoved => (disk.state.kind = "absent" /\ disk.final # None)

\* C20: a kill of the process leaves the state record as it was before the
\* step, or as a complete record; never empty or truncated.
C20_SaveAtomicUnderKill ==
    [][run' = run + 1 => (disk'.state = disk.state \/ disk'.state.kind = "ok")]_vars

\* C19: a segment task holds the file lock only from its seek to the end of
\* its write, never while it waits for the network or the rate limiter;
\* while it is between seek and write nobody else holds the lock and the
\* cursor stays where it sought; and when every task has returned Ok with a
\* server that honoured the ranges, the slab is the concatenation of the
\* segments' byte streams, that is the entity.
C19_SlabExclusion ==
    /\ \A t \in TaskIds :
          /\ file.owner = t => tasks[t].pc \in {"seek", "write"}
          /\ tasks[t].pc \in {"seek", "write"} => file.owner = t
          /\ tasks[t].pc = "write" => file.pos = tasks[t].pos
    /\ (pc = "cleanup" /\ hist.clean) => disk.slab = Some(Entity)

\* Two tasks that have both written before: one is about to write under the
\* lock while the other waits for it.
C19_Witness ==
    \E t, u \in TaskIds :
        /\ t # u
        /\ tasks[t].pc = "write" /\ tasks[t].pos > tasks[t].start
        /\ tasks[u].pc = "lock" /\ tasks[u].pos > tasks[u].start

\* C13: at every instant at most C engines (download_file invocations) are
\* running, C being the configured concurrency, whatever the task list.
C13_AtMostCEngines == Cardinality(Running) <= concurrency

\* As many engines as there are permits are running, in the middle of
\* their downloads, while another item waits for a permit.
C13_Witness ==
    /\ concurrency > 0
    /\ Cardinality(Running) = concurrency
    /\ \A i \in Running : engines[i].pc = "stream" /\ engines[i].left = 1
    /\ \E i \in EngineIds : engines[i].pc = "spawned"

\* Engine i returns an error in this step.
ReturnsErr(i) == engines[i].pc \notin {"ok", "err", "panic"} /\ engines'[i].pc = "err"

\* C14: the step in which an engine returns an error changes no other
\* engine, does not make run_downloads return and gives the permit back, so
\* that no permit is ever lost to a failed engine; and when run_downloads
\* has returned Ok every item was admitted and ran to its own outcome.
C14_FailureIsLocal ==
    /\ [][\A i \in EngineIds :
            (sched = "join" /\ ReturnsErr(i)) =>
                /\ sched' = sched
                /\ semaphore' = semaphore + 1
                /\ \A j \in EngineIds \ {i} : engines'[j] = engines[j]]_vars
    /\ [](sched = "join" => semaphore + Cardinality(Running) = concurrency)
    /\ [](sched = "returned_ok" => \A i \in EngineIds : engines[i].pc \in {"ok", "err"})

\* Under C = 1 the first engine failed and the second one, admitted with the
\* permit the first gave back, committed its file.
C14_Witness ==
    /\ sched = "returned_ok"
    /\ concurrency = 1
    /\ Len(items) = 2
    /\ engines[1].pc = "err"
    /\ engines[2].pc = "ok"
    /\ downloaded_files = 1
    /\ files[items[2]].final # None

\* C15: run_downloads returns only after every engine has terminated, and
\* until it returns the run can always go on (an engine can be admitted or
\* take a step, or run_downloads can return), for every C and task list.
C15_ReturnsAfterAllEngines ==
    /\ sched \in {"returned_ok", "returned_err"} =>
          \A i \in EngineIds : engines[i].pc \in {"ok", "err", "panic"}
    /\ sched \in {"start", "join"} => ENABLED NextRun

\* C16: the run reports success if and only if every engine returned Ok
\* (its file committed or found): any engine error makes the run fail.
C16_AggregateOutcome ==
    sched \in {"returned_ok", "returned_err"} =>
        (sched = "returned_ok" <=> \A i \in EngineIds : engines[i].pc = "ok")

\* The pre-scan learnt the size of every item of the list.
AllSizesKnown == \A i \in 1..Len(items) : items[i] \in size_map

\* C17: when the size of every item is known, a run that has ended has
\* bytes_downloaded <= bytes_known.
C17_DownloadedAtMostKnown ==
    (sched = "returned_ok" /\ AllSizesKnown) =>
        total_downloaded_bytes <= total_known_bytes

\* Engine i leaves the start of download_file with the final file in place.
SkipStep(i) ==
    /\ sched = "join"
    /\ engines[i].pc = "start"
    /\ files[engines[i].url].final # None
    /\ engines'[i].pc # "start"

C21_HeadFailureFallsBack == pc # "err_head"

\* The engines that hold their paths open: between the opening of the slab
\* and the return of download_file.
Working == {i \in EngineIds : engines[i].pc \in {"stream", "join"}}

OwnedPaths(i) == {PartPath(engines[i].name), StatePath(engines[i].name)}

\* C22: two engines that run at the same time for different URLs never work
\* on the same slab file or the same state record, whatever the task list.
C22_DisjointPaths ==
    \A i, j \in Working :
        engines[i].url # engines[j].url => OwnedPaths(i) \cap OwnedPaths(j) = {}

\* C23: when S = 1 or 1 <= total_size < S, init_state does not underflow
\* and yields a state of the segmented path (total_size > 0) with exactly one
\* segment, [0, total_size - 1].
C23_OneSegment ==
    (pc # "part" /\ (cfg.split_count = 1 \/ cfg.entity_len < cfg.split_count)) =>
        /\ pc = "parted"
        /\ st.total_size = cfg.entity_len
        /\ Len(st.parts) = 1
        /\ st.parts[1].start_byte = 0
        /\ st.parts[1].end_byte = cfg.entity_len - 1
        /\ st.parts[1].current_byte = 0
        /\ ~st.parts[1].completed

\* C24: with a rate limit R, a chunk longer than R is still admitted.  For
\* every chunk of n > 0 bytes and every R >= 1, on the segmented path and on
\* the fallback, the step that leaves the limiter's wait goes on to the
\* write of the chunk: it never panics.
C24_LargeChunkAdmitted ==
    [][/\ \A t \in TaskIds :
             (tasks[t].pc = "limit" /\ tasks'[t].pc # "limit") => tasks'[t].pc = "lock"
       /\ (pc = "fb_limit" /\ pc' # "fb_limit") => pc' = "fb_write"]_vars

\* The limiter has granted the chunk that task t holds, when there is a limiter.
Granted(t) == rate_limit = None \/ tasks[t].granted = Len(tasks[t].chunk)

SingleGranted == rate_limit = None \/ fb_chunk.granted = Len(fb_chunk.bytes)

\* C28: every chunk of length > 0, of a segment task and of the fallback,
\* has been granted its length by the one limiter before it is written to
\* the slab and before bytes_downloaded grows, and bytes_downloaded grows by
\* the chunk's length in the step that writes it; a chunk of length 0 never
\* reaches the limiter, the lock or the write.
C28_LimiterBeforeWrite ==
    /\ [](\A t \in TaskIds :
             /\ tasks[t].pc \in {"limit", "lock", "seek", "write"} =>
                   Len(tasks[t].chunk) > 0
             /\ tasks[t].pc \in {"lock", "seek", "write"} => Granted(t))
    /\ [](/\ pc \in {"fb_limit", "fb_write"} => Len(fb_chunk.bytes) > 0
          /\ pc = "fb_write" => SingleGranted)
    /\ [][(total_downloaded_bytes' # total_downloaded_bytes
           \/ (disk.slab # None /\ disk'.slab # None /\ disk'.slab # disk.slab)) =>
             \/ \E t \in TaskIds :
                  /\ tasks[t].pc = "write" /\ tasks'[t].pc = "save"
                  /\ Granted(t)
                  /\ disk'.slab = Some(WriteAt(disk.slab[1], tasks[t].pos, tasks[t].chunk))
                  /\ total_downloaded_bytes' = total_downloaded_bytes + Len(tasks[t].chunk)
             \/ /\ pc = "fb_write" /\ pc' = "fb_stream"
                /\ SingleGranted
                /\ disk'.slab = Some(disk.slab[1] \o fb_chunk.bytes)
                /\ total_downloaded_bytes' = total_downloaded_bytes + Len(fb_chunk.bytes)]_vars

\* Under a rate limit of 2 bytes a segment task is about to write a chunk of
\* 2 bytes that the limiter has granted, after an earlier chunk was counted.
C28_Witness ==
    /\ rate_limit = Some(2)
    /\ total_downloaded_bytes > 0
    /\ \E t \in TaskIds :
         /\ tasks[t].pc = "write"
         /\ Len(tasks[t].chunk) = 2
         /\ tasks[t].granted = 2

\* The segmented engine of this run is at work on its slab: its segment
\* tasks are running or have just been joined.
SegmentedInProgress == pc \in {"await", "cleanup"}

FallbackInProgress == pc \in {"fb_send", "fb_stream", "fb_verify"}

\* C25: the layout of the output directory.  While a segmented download is
\* in progress both the slab (of length total_size) and the state record
\* exist; while an engine is running, a slab without a state record belongs
\* to the single-connection fallback; after a successful commit neither the
\* slab nor the state record exists.
C25_PersistedLayout ==
    /\ SegmentedInProgress =>
          /\ disk.slab # None
          /\ Len(disk.slab[1]) = st.total_size
          /\ disk.state.kind # "absent"
    /\ (disk.slab # None /\ disk.state.kind = "absent"
        /\ (SegmentedInProgress \/ FallbackInProgress \/ pc = "verify")) =>
          FallbackInProgress
    /\ pc = "ok" => (disk.slab = None /\ disk.state.kind = "absent")

\* C26: for every segment with a task in this run, the current_byte of
\* the persisted state record is at most the offset up to which the task has
\* written the segment's bytes to the slab (the task's current_pos).
C26_SavedAtMostWritten ==
    \A t \in TaskIds :
        (tasks[t].pc # "none" /\ disk.state.kind = "ok") =>
            disk.state.parts[t].current_byte <= tasks[t].pos

\* Segment task t has been spawned and has not returned.
TaskRunning(t) == tasks[t].pc \notin {"none", "ok", "err", "panic"}

\* C27: the engine reports its outcome only after all of its segment tasks
\* have terminated: once the join loop is left, with success or with
\* failure, no segment task of the file is still running.
C27_ReturnsAfterAllTasks ==
    pc \notin {"engine", "await"} => \A t \in TaskIds : ~TaskRunning(t)

\* download_file loads the state record and goes on to its segment tasks.
ResumeStep == pc = "engine" /\ disk.state.kind = "ok" /\ pc' = "await"

CorruptStep == pc = "engine" /\ disk.state.kind = "corrupt" /\ pc' \notin {"engine", "boot"}

\* C30: a corrupt state record is discarded and the download starts again
\* as on a first encounter.  When the HEAD gives a length, the partition is
\* fresh, every current_byte is start_byte and every segment gets a task
\* from its start; and whatever the HEAD gave, a file committed by the
\* engine that found the corrupt record is the server entity, byte for byte
\* (on the fallback the corrupt record is still on disk at the commit).
C30_CorruptReinit ==
    /\ [][(CorruptStep /\ pc' = "await") =>
             /\ st'.total_size = cfg.entity_len
             /\ Len(st'.parts) = cfg.split_count
             /\ \A j \in 1..Len(st'.parts) :
                  /\ st'.parts[j].current_byte = st'.parts[j].start_byte
                  /\ ~st'.parts[j].completed
                  /\ tasks'[j].pc = "send"
                  /\ tasks'[j].pos = st'.parts[j].start_byte]_vars
    /\ []((pc = "ok" /\ disk.state.kind = "corrupt") => disk.final = Some(Entity))

\* The fallback's request has been answered and the slab is open.
SingleSendStep == pc = "fb_send" /\ pc' = "fb_stream"

IsPrefix(a, b) == Len(a) <= Len(b) /\ SubSeq(b, 1, Len(a)) = a

\* The rest of the entity from offset n on.
EntityFrom(n) == SubSeq(Entity, n + 1, cfg.entity_len)

\* C31: resume on the single-connection fallback.  Without a slab, or with
\* an empty one, the request is a plain GET and the body is the entity; the
\* received bytes are appended to the slab in the order of the stream; and
\* when the slab holds the first L bytes of the entity and the server
\* answers with the rest from L on, or ignores the Range header and answers
\* with the full entity, the slab and the body to come make up the entity,
\* so that the file committed after the whole body is the entity.
C31_SingleResume ==
    /\ [][(SingleSendStep /\ DownloadedLen = 0) =>
             (fb_body' = Entity /\ disk'.slab = Some(<<>>))]_vars
    /\ [][(pc = "fb_stream" /\ pc' = "fb_stream") =>
             /\ disk'.slab[1] \o fb_body' = disk.slab[1] \o fb_body
             /\ IsPrefix(disk.slab[1], disk'.slab[1])]_vars
    /\ [][(/\ SingleSendStep
           /\ DownloadedLen > 0
           /\ IsPrefix(disk.slab[1], Entity)
           /\ fb_body' \in {Entity, EntityFrom(DownloadedLen)}) =>
             disk'.slab[1] \o fb_body' = Entity]_vars

\* The segmented engine renames the slab to the final name.
SegmentedCommitStep == pc = "verify" /\ pc' = "ok"

\* Offset k of the byte sequence holds a byte that no write put there: the
\* zero byte of set_len or of a hole (the entity has no zero byte).
NeverWritten(bytes, k) == k >= Len(bytes) \/ bytes[k + 1] = 0

\* C32: a file reaches its final name through the segmented path only if
\* every offset of [0, total_size) has been written by a segment write, in
\* this run or in an earlier one: whatever the server and the scheduling
\* do, the committed file has no pre-allocated region that was never
\* written.
C32_NoUnwrittenRegion ==
    [][SegmentedCommitStep =>
          \A k \in 0..(st.total_size - 1) : ~NeverWritten(disk'.final[1], k)]_vars

\* Engine i returns success in this step (its file committed or skipped).
EngineReturnsOk(i) ==
    /\ i \in 1..Len(engines')
    /\ engines[i].pc # "ok"
    /\ engines'[i].pc = "ok"

\* The items of the task list whose final file exists.
ItemsWithFinal == {i \in 1..Len(items) : files[items[i]].final # None}

\* The engines that have returned success.
EnginesOk == {i \in EngineIds : engines[i].pc = "ok"}

SchedulerReturned == sched \in {"returned_ok", "returned_err"}

\* Every step that takes an engine to success adds exactly one to
\* completed_files, and no other step changes it: not a step of a segment
\* stream, not the return of an error.
CountedOncePerSuccess ==
    /\ [][\A i \in EngineIds :
             EngineReturnsOk(i) => downloaded_files' = downloaded_files + 1]_vars
    /\ [][downloaded_files' # downloaded_files =>
             \E i \in EngineIds : EngineReturnsOk(i)]_vars

\* C33 as stated: completed_files is incremented exactly once for each
\* engine that returns success and never otherwise; at scheduler return it
\* equals the number of items whose final file exists and does not exceed
\* the number of items.
C33_CountEqualsFinalFiles ==
    /\ CountedOncePerSuccess
    /\ [](SchedulerReturned =>
            /\ downloaded_files = Cardinality(ItemsWithFinal)
            /\ downloaded_files <= Len(items))

\* C33 amended: completed_files is incremented exactly once for each engine
\* that returns success and never otherwise; it equals the number of
\* engines that have returned success, which at scheduler return is at most
\* the number of items whose final file exists and at most the number of
\* items.
C33_CountEqualsSuccesses ==
    /\ CountedOncePerSuccess
    /\ [](downloaded_files = Cardinality(EnginesOk))
    /\ [](SchedulerReturned =>
            /\ downloaded_files <= Cardinality(ItemsWithFinal)
            /\ downloaded_files <= Len(items))

\* The task list names one URL twice; the first engine has failed, the
\* second has committed the file, and run_downloads has returned: one file
\* is counted and the final file of both items exists.
C33_Witness ==
    /\ sched = "returned_ok"
    /\ Len(items) = 2
    /\ engines[1].pc = "err"
    /\ engines[2].pc = "ok"
    /\ downloaded_files = 1
    /\ Cardinality(ItemsWithFinal) = 2

====
